---------------------------- MODULE Spec2Model ----------------------------
(***************************************************************************)
(* A model of the per-worker root of timely dataflow (src/src/worker.rs):  *)
(* the Worker with its shared fields, the step loop, channel allocation,   *)
(* identifier minting, dataflow construction and the dataflow Wrapper.     *)
(*                                                                         *)
(* Every Worker clone shares the same Rc<RefCell<..>> fields, so the model *)
(* has one copy of each field and an operation may be invoked from the     *)
(* owner of the worker (between operations), from inside a dataflow        *)
(* builder (through Child.parent, a clone) or from inside an operator's    *)
(* schedule call (through a clone the operator kept).                      *)
(***************************************************************************)
EXTENDS Naturals, Sequences, FiniteSets

(***************************************************************************)
(* Bounds of the model.                                                    *)
(***************************************************************************)
\* identifiers handed to allocate / pipeline are drawn from 0..MaxChannel
MaxChannel == 1
\* new_identifier is called at most MaxIdentifiers times
MaxIdentifiers == 2
\* dataflow_using is called at most MaxDataflows times
MaxDataflows == 2
\* receive() delivers at most MaxEvents channel events per step
MaxEvents == 1

(***************************************************************************)
(* Values.                                                                 *)
(***************************************************************************)
\* allocator.index() of this worker: the root address of every dataflow
WorkerIndex == 0

\* The addresses callers pass to allocate / pipeline: the zero-length
\* address, an operator below the dataflow root [WorkerIndex], and an
\* address outside every dataflow of this worker.
Addresses == { <<>>, <<WorkerIndex, 1>>, <<WorkerIndex + 1>> }

ChannelIds == 0..MaxChannel

NoPanic == "none"
PanicAddress == "Unacceptable address: Length zero"
NoValue == << >>
NoLoop == [at |-> "none", lastRet |-> NoValue]
PanicBorrow == "already mutably borrowed: dataflows"

VARIABLES
    \* ---- Worker fields (shared by all clones) ----
    paths,              \* Vec<Vec<usize>>: slot i+1 of the sequence is paths[i]
    allocator,          \* [channels: ids the allocator was asked to allocate,
                        \*  events: the (channel, event) list,
                        \*  released: release() was called in the current step]
    identifiers,        \* the identifier counter
    dataflows,          \* Vec<Wrapper>
    dataflow_counter,   \* the dataflow index counter
    logging,            \* [flushed: flush() was called in the current step]
    activations,        \* Activations: the sequence of unparked addresses
    \* ---- control ----
    pc,                 \* position of the worker thread
    cursor,             \* position of iter_mut() / of the Vec's drop loop
    field,              \* position inside Wrapper::step's release / Wrapper::drop
    building,           \* stack of dataflow indices whose builder is running
    ret,                \* value returned by the last completed step
    panicked,           \* NoPanic, or the panic that ended the worker thread
    loop,               \* the step_while call in progress: [at: where it stands,
                        \*  lastRet: << what its latest step returned >>, or NoValue]
    \* ---- history (observations the properties are stated on) ----
    idLog,              \* values returned by new_identifier, in call order
    supplied,           \* identifier -> address supplied by its allocation, kept
                        \* while no identifier has been allocated twice
    reused,             \* TRUE once some identifier was allocated twice
    entryEvents,        \* the events the allocator held after receive(), kept
                        \* until the first statement after tidy() runs
    schedStart,         \* dataflow indices in the list when scheduling started
    schedLog,           \* dataflow indices whose schedule ran in this step
    schedFalse,         \* dataflow indices whose schedule has returned false
    registered          \* dataflow indices in the order they were pushed

vars == << paths, allocator, identifiers, dataflows, dataflow_counter, logging,
           activations, pc, cursor, field, building, ret, panicked, loop,
           idLog, supplied, reused, entryEvents, schedStart, schedLog,
           schedFalse, registered >>

workerVars == << paths, allocator, identifiers, dataflows, dataflow_counter,
                 logging, activations >>
stepVars == << pc, cursor, field, ret, entryEvents, schedStart, schedLog, schedFalse >>
allocHist == << supplied, reused >>

(***************************************************************************)
(* Sequences of addresses.                                                 *)
(***************************************************************************)
Range(s) == { s[i] : i \in 1..Len(s) }

\* prefix is a prefix of addr (addr extends prefix)
Extends(addr, prefix) ==
    /\ Len(prefix) <= Len(addr)
    /\ \A i \in 1..Len(prefix) : addr[i] = prefix[i]

\* lexicographic order of addresses, as slices of usize compare
RECURSIVE LexLess(_, _)
LexLess(a, b) ==
    IF a = <<>> THEN b # <<>>
    ELSE IF b = <<>> THEN FALSE
    ELSE IF Head(a) # Head(b) THEN Head(a) < Head(b)
    ELSE LexLess(Tail(a), Tail(b))

RECURSIVE SortedSeq(_)
SortedSeq(S) ==
    IF S = {} THEN <<>>
    ELSE LET m == CHOOSE x \in S : \A y \in S \ {x} : LexLess(x, y)
         IN  <<m>> \o SortedSeq(S \ {m})

(***************************************************************************)
(* Activations (scheduling::activate, not part of worker.rs).              *)
(***************************************************************************)
\* unpark(path): add the address to the runnable set
Unpark(act, path) == Append(act, path)

\* tidy(): sort lexicographically and collapse exact duplicates
Tidy(act) == SortedSeq(Range(act))

\* for_extensions(prefix, action): visit, then remove, the addresses that extend prefix
ForExtensions(act, prefix) == SelectSeq(act, LAMBDA a : ~Extends(a, prefix))

IsTidy(act) ==
    \A i, j \in 1..Len(act) : i < j => LexLess(act[i], act[j])

(***************************************************************************)
(* Worker::new                                                             *)
(***************************************************************************)
Init ==
    /\ paths = <<>>
    /\ allocator = [channels |-> {}, events |-> <<>>, released |-> FALSE]
    /\ identifiers = 0
    /\ dataflows = <<>>
    /\ dataflow_counter = 0
    /\ logging = [flushed |-> FALSE]
    /\ activations = <<>>
    /\ pc = "idle"
    /\ cursor = 0
    /\ field = 0
    /\ building = <<>>
    /\ ret = FALSE
    /\ panicked = NoPanic
    /\ loop = NoLoop
    /\ idLog = <<>>
    /\ supplied = << >>
    /\ reused = FALSE
    /\ entryEvents = <<>>
    /\ schedStart = <<>>
    /\ schedLog = <<>>
    /\ schedFalse = {}
    /\ registered = <<>>

(***************************************************************************)
(* Where user code runs and may call into the worker: between operations,  *)
(* inside a builder, or inside an operator's schedule.                     *)
(***************************************************************************)
Running == panicked = NoPanic

InUserCode == Running /\ pc \in {"idle", "inSchedule"} /\ loop.at # "call"

\* step holds dataflows.borrow_mut() for the whole for_each (lines 154-157)
DataflowsBorrowed == pc = "inSchedule"

(***************************************************************************)
(* Worker::new_identifier                                                  *)
(***************************************************************************)
\* the value returned: the counter after the increment, minus one
NewIdentifierBuggy(counter) == counter + 1
NewIdentifierResult(counter) == (counter + 1) - 1

new_identifier ==
    /\ InUserCode
    /\ identifiers < MaxIdentifiers
    /\ identifiers' = identifiers + 1
    /\ idLog' = Append(idLog, NewIdentifierResult(identifiers))
    /\ UNCHANGED << paths, allocator, dataflows, dataflow_counter, logging,
                    activations, building, panicked, registered >>
    /\ UNCHANGED stepVars
    /\ UNCHANGED allocHist
    /\ UNCHANGED loop

(***************************************************************************)
(* Worker::allocate and Worker::pipeline                                   *)
(***************************************************************************)
\* while paths.len() <= identifier { paths.push(Vec::new()); }
GrowPathsFresh(p, identifier) == [i \in 1..(identifier + 1) |-> <<>>]
GrowPaths(p, identifier) ==
    IF Len(p) <= identifier
    THEN p \o [i \in 1..(identifier + 1 - Len(p)) |-> <<>>]
    ELSE p

\* the growth loop followed by paths[identifier] = address.to_vec()
WritePathPush(p, identifier, address) == Append(GrowPaths(p, identifier), address)
WritePath(p, identifier, address) ==
    [GrowPaths(p, identifier) EXCEPT ![identifier + 1] = address]

\* the history of allocations: the address supplied for each identifier, kept
\* until some identifier is allocated a second time
RecordAllocation(identifier, address) ==
    IF reused \/ identifier \in allocator.channels
    THEN /\ reused' = TRUE
         /\ supplied' = << >>
    ELSE /\ supplied' = [i \in DOMAIN supplied \cup {identifier} |->
                            IF i = identifier THEN address ELSE supplied[i]]
         /\ UNCHANGED reused

\* a variant that registers the channel before looking at the address
AllocateLateCheck(identifier, address) ==
    /\ InUserCode
    /\ paths' = WritePath(paths, identifier, address)
    /\ allocator' = [allocator EXCEPT !.channels = @ \cup {identifier}]
    /\ IF Len(address) = 0
       THEN /\ panicked' = PanicAddress
            /\ UNCHANGED allocHist
       ELSE /\ RecordAllocation(identifier, address)
            /\ UNCHANGED panicked
    /\ UNCHANGED << identifiers, dataflows, dataflow_counter, logging,
                    activations, building, idLog, registered >>
    /\ UNCHANGED stepVars
    /\ UNCHANGED loop

AllocateChannel(identifier, address) ==
    /\ InUserCode
    /\ IF Len(address) = 0
       THEN /\ panicked' = PanicAddress
            /\ UNCHANGED << paths, allocator >>
            /\ UNCHANGED allocHist
       ELSE /\ paths' = WritePath(paths, identifier, address)
            /\ allocator' = [allocator EXCEPT !.channels = @ \cup {identifier}]
            /\ RecordAllocation(identifier, address)
            /\ UNCHANGED panicked
    /\ UNCHANGED << identifiers, dataflows, dataflow_counter, logging,
                    activations, building, idLog, registered >>
    /\ UNCHANGED stepVars
    /\ UNCHANGED loop

allocate ==
    \E identifier \in ChannelIds, address \in Addresses :
        AllocateChannel(identifier, address)

pipeline ==
    \E identifier \in ChannelIds, address \in Addresses :
        AllocateChannel(identifier, address)

(***************************************************************************)
(* Worker::dataflow_using (Worker::dataflow is dataflow_using with the     *)
(* unit resource).  The builder runs between the two halves and may call   *)
(* back into the worker through Child.parent.                              *)
(***************************************************************************)
\* line 213: addr = vec![self.allocator.borrow().index()], whatever the dataflow
RootAddress(dataflow_index) == << WorkerIndex >>

\* the operators of a dataflow are addressed below its root address
\* (SubgraphBuilder::new_from(index, addr, ..) takes addr as the subgraph's path)
NamesOperatorOf(address, dataflow_index) ==
    /\ Extends(address, RootAddress(dataflow_index))
    /\ Len(address) > Len(RootAddress(dataflow_index))

\* allocate_dataflow_index: the counter after the increment, minus one
AllocateDataflowIndexBuggy(counter) == counter + 1
AllocateDataflowIndexResult(counter) == (counter + 1) - 1

\* a tail that hands the wrapper to the list before the summaries are exchanged
ExitCallsPushEarly ==
    << "build", "push", "get_internal_summary", "set_external_summary" >>
\* lines 231-241: the calls dataflow_using makes once func has returned
ExitCalls ==
    << "build", "get_internal_summary", "set_external_summary", "push" >>

IsSummaryCall(call) == call \in {"get_internal_summary", "set_external_summary"}

\* the summary calls the operator has received when "push" runs
RECURSIVE SummariesAtPush(_)
SummariesAtPush(calls) ==
    IF calls = <<>> \/ Head(calls) = "push" THEN <<>>
    ELSE IF IsSummaryCall(Head(calls))
         THEN << Head(calls) >> \o SummariesAtPush(Tail(calls))
         ELSE SummariesAtPush(Tail(calls))

\* Wrapper { _index, operate: Some(..), resources: Some(..) }; summaries is the
\* initialisation the boxed operator has received when it enters the list
NewWrapper(dataflow_index) ==
    [index |-> dataflow_index, operate |-> TRUE, resources |-> TRUE,
     summaries |-> SummariesAtPush(ExitCalls)]

\* an allocate_dataflow_index that also advances the identifier counter
dataflow_using_enter_both ==
    /\ InUserCode
    /\ dataflow_counter < MaxDataflows
    /\ dataflow_counter' = dataflow_counter + 1
    /\ identifiers' = identifiers + 1
    /\ building' = Append(building, dataflow_counter)
    /\ UNCHANGED << paths, allocator, dataflows, logging,
                    activations, panicked, idLog, registered >>
    /\ UNCHANGED stepVars
    /\ UNCHANGED allocHist
    /\ UNCHANGED loop

\* lines 213-226: root address, dataflow index, logger, subscope; func is entered
dataflow_using_enter ==
    /\ InUserCode
    /\ dataflow_counter < MaxDataflows
    /\ dataflow_counter' = dataflow_counter + 1
    /\ building' = Append(building, AllocateDataflowIndexResult(dataflow_counter))
    /\ UNCHANGED << paths, allocator, identifiers, dataflows, logging,
                    activations, panicked, idLog, registered >>
    /\ UNCHANGED stepVars
    /\ UNCHANGED allocHist
    /\ UNCHANGED loop

\* lines 227-243: func has returned; build, the two summaries, push
dataflow_using_exit ==
    /\ InUserCode
    /\ building # <<>>
    /\ IF DataflowsBorrowed
       THEN /\ panicked' = PanicBorrow
            /\ UNCHANGED << dataflows, building, registered >>
       ELSE /\ dataflows' = Append(dataflows, NewWrapper(building[Len(building)]))
            /\ registered' = Append(registered, building[Len(building)])
            /\ building' = SubSeq(building, 1, Len(building) - 1)
            /\ UNCHANGED panicked
    /\ UNCHANGED << paths, allocator, identifiers, dataflow_counter, logging,
                    activations, idLog >>
    /\ UNCHANGED stepVars
    /\ UNCHANGED allocHist
    /\ UNCHANGED loop

(***************************************************************************)
(* Worker::step                                                            *)
(***************************************************************************)
Indices(dfs) == [i \in 1..Len(dfs) |-> dfs[i].index]

\* the events receive() may add: for channels the allocator has allocated
RECURSIVE EventSeqs(_, _)
EventSeqs(chans, n) ==
    IF n = 0 THEN { <<>> }
    ELSE LET shorter == EventSeqs(chans, n - 1)
         IN  shorter \cup { Append(s, c) : s \in shorter, c \in chans }

\* lines 126-129: borrow the allocator, receive, take the event list
StepReceive ==
    /\ Running
    /\ pc = "idle"
    /\ building = <<>>
    /\ loop.at \in {"none", "call"}
    /\ loop' = IF loop.at = "call" THEN [loop EXCEPT !.at = "step"] ELSE loop
    /\ \E arrived \in EventSeqs(allocator.channels, MaxEvents - Len(allocator.events)) :
          /\ allocator' = [allocator EXCEPT !.events = @ \o arrived]
          /\ entryEvents' = allocator.events \o arrived
    /\ pc' = "drain"
    /\ UNCHANGED << paths, identifiers, dataflows, dataflow_counter, logging,
                    activations, cursor, field, building, ret, panicked, idLog, schedStart,
                    schedLog, schedFalse, registered >>
    /\ UNCHANGED allocHist

\* lines 130-140: for (channel, _event) in drain(..) { unpark(paths[channel]) }
\* a drain that leaves out the first event
RECURSIVE DrainEventsSkipFirst(_, _, _)
DrainEventsSkipFirst(act, events, p) ==
    IF Len(events) <= 1 THEN act
    ELSE DrainEventsSkipFirst(Unpark(act, p[events[Len(events)] + 1]),
                              SubSeq(events, 1, Len(events) - 1), p)
RECURSIVE DrainEvents(_, _, _)
DrainEvents(act, events, p) ==
    IF events = <<>> THEN act
    ELSE DrainEvents(Unpark(act, p[Head(events) + 1]), Tail(events), p)

StepDrain ==
    /\ Running
    /\ pc = "drain"
    /\ activations' = DrainEvents(activations, allocator.events, paths)
    /\ allocator' = [allocator EXCEPT !.events = <<>>]
    /\ pc' = "tidy"
    /\ UNCHANGED << paths, identifiers, dataflows, dataflow_counter, logging,
                    cursor, field, building, ret, panicked, idLog, entryEvents,
                    schedStart, schedLog, schedFalse, registered >>
    /\ UNCHANGED allocHist
    /\ UNCHANGED loop

\* lines 144-146, then dataflows.borrow_mut().iter_mut() is taken (154-156)
StepTidy ==
    /\ Running
    /\ pc = "tidy"
    /\ activations' = Tidy(activations)
    /\ schedStart' = Indices(dataflows)
    /\ cursor' = 1
    /\ pc' = "each"
    /\ UNCHANGED << paths, allocator, identifiers, dataflows, dataflow_counter,
                    logging, field, building, ret, panicked, idLog, entryEvents,
                    schedLog, schedFalse, registered >>
    /\ UNCHANGED allocHist
    /\ UNCHANGED loop

\* the element iter_mut() yields at its k-th turn
VisitReversed(dfs, k) == Len(dfs) + 1 - k
Visit(dfs, k) == k

\* a Wrapper::step that insists on the operator: operate.as_mut().expect(..)
WrapperStepCallExpect ==
    /\ Running
    /\ pc = "each"
    /\ cursor <= Len(dataflows)
    /\ IF dataflows[cursor].operate
       THEN /\ pc' = "inSchedule"
            /\ schedLog' = Append(schedLog, dataflows[cursor].index)
            /\ UNCHANGED panicked
       ELSE /\ panicked' = "operator released"
            /\ UNCHANGED << pc, schedLog >>
    /\ UNCHANGED workerVars
    /\ entryEvents' = <<>>
    /\ UNCHANGED << cursor, field, building, ret, idLog, schedStart,
                    schedFalse, registered >>
    /\ UNCHANGED allocHist
    /\ UNCHANGED loop

\* Wrapper::step, line 279: operate.as_mut().map(|op| op.schedule()).unwrap_or(false)
WrapperStepCall ==
    /\ Running
    /\ pc = "each"
    /\ cursor <= Len(dataflows)
    /\ IF dataflows[Visit(dataflows, cursor)].operate
       THEN /\ pc' = "inSchedule"
            /\ schedLog' = Append(schedLog, dataflows[Visit(dataflows, cursor)].index)
            /\ UNCHANGED field
       ELSE /\ pc' = "retire"
            /\ field' = 1
            /\ UNCHANGED schedLog
    /\ UNCHANGED workerVars
    /\ entryEvents' = <<>>
    /\ UNCHANGED << cursor, building, ret, panicked, idLog, schedStart,
                    schedFalse, registered >>
    /\ UNCHANGED allocHist
    /\ UNCHANGED loop

\* the operator drains the activations below its dataflow's root address
OperatorForExtensions ==
    /\ Running
    /\ pc = "inSchedule"
    /\ building = <<>>
    /\ activations' = ForExtensions(activations,
                                    RootAddress(dataflows[Visit(dataflows, cursor)].index))
    /\ UNCHANGED << paths, allocator, identifiers, dataflows, dataflow_counter,
                    logging, building, panicked, idLog, registered >>
    /\ UNCHANGED stepVars
    /\ UNCHANGED allocHist
    /\ UNCHANGED loop

\* line 280: if !active { release }
RetiresNever(active) == FALSE
Retires(active) == ~active

\* schedule() returns the operator's liveness
ScheduleReturn ==
    /\ Running
    /\ pc = "inSchedule"
    /\ building = <<>>
    /\ \E active \in BOOLEAN :
          /\ schedFalse' = IF active THEN schedFalse
                           ELSE schedFalse \cup {dataflows[Visit(dataflows, cursor)].index}
          /\ IF Retires(active)
             THEN /\ pc' = "retire"
                  /\ field' = 1
                  /\ UNCHANGED cursor
             ELSE /\ pc' = "each"
                  /\ cursor' = cursor + 1
                  /\ UNCHANGED field
    /\ UNCHANGED workerVars
    /\ UNCHANGED << building, ret, panicked, idLog, entryEvents, schedStart,
                    schedLog, registered >>
    /\ UNCHANGED allocHist
    /\ UNCHANGED loop

\* the order in which a wrapper's fields are set to None
ResourcesFirst == << "resources", "operate" >>
\* Wrapper::step, lines 281-282
ReleaseOrder == << "operate", "resources" >>
\* Drop for Wrapper, lines 294-295
DropOrder == << "operate", "resources" >>

SetNone(dfs, k, name) ==
    IF name = "operate"
    THEN [dfs EXCEPT ![k].operate = FALSE]
    ELSE [dfs EXCEPT ![k].resources = FALSE]

\* Wrapper::step, lines 281-282, one assignment at a time
WrapperRelease ==
    /\ Running
    /\ pc = "retire"
    /\ dataflows' = SetNone(dataflows, Visit(dataflows, cursor), ReleaseOrder[field])
    /\ IF field < Len(ReleaseOrder)
       THEN /\ field' = field + 1
            /\ UNCHANGED << pc, cursor >>
       ELSE /\ field' = 0
            /\ pc' = "each"
            /\ cursor' = cursor + 1
    /\ UNCHANGED << paths, allocator, identifiers, dataflow_counter, logging,
                    activations, building, ret, panicked, idLog, entryEvents,
                    schedStart, schedLog, schedFalse, registered >>
    /\ UNCHANGED allocHist
    /\ UNCHANGED loop

\* line 160, reached when for_each has visited every wrapper
StepFlush ==
    /\ Running
    /\ pc = "each"
    /\ cursor > Len(dataflows)
    /\ logging' = [flushed |-> TRUE]
    /\ pc' = "release"
    /\ entryEvents' = <<>>
    /\ UNCHANGED << paths, allocator, identifiers, dataflows, dataflow_counter,
                    activations, cursor, field, building, ret, panicked, idLog,
                    schedStart, schedLog, schedFalse, registered >>
    /\ UNCHANGED allocHist
    /\ UNCHANGED loop

\* a step that filters the list before it releases the allocator
StepReleaseLate ==
    /\ Running
    /\ pc = "release"
    /\ dataflows' = SelectSeq(dataflows, LAMBDA d : d.operate)
    /\ pc' = "retain"
    /\ UNCHANGED << paths, allocator, identifiers, dataflow_counter, logging,
                    activations, cursor, field, building, ret, panicked, idLog,
                    entryEvents, schedStart, schedLog, schedFalse, registered >>
    /\ UNCHANGED allocHist
    /\ UNCHANGED loop

\* line 163
StepRelease ==
    /\ Running
    /\ pc = "release"
    /\ allocator' = [allocator EXCEPT !.released = TRUE]
    /\ pc' = "retain"
    /\ UNCHANGED << paths, identifiers, dataflows, dataflow_counter, logging,
                    activations, cursor, field, building, ret, panicked, idLog,
                    entryEvents, schedStart, schedLog, schedFalse, registered >>
    /\ UNCHANGED allocHist
    /\ UNCHANGED loop

\* Wrapper::active, line 287
Active(dataflow) == dataflow.operate

\* line 166: retain(|dataflow| dataflow.active())
RetainAll(dfs) == dfs
Retain(dfs) == SelectSeq(dfs, Active)

StepRetain ==
    /\ Running
    /\ pc = "retain"
    /\ dataflows' = Retain(dataflows)
    /\ pc' = "return"
    /\ UNCHANGED << paths, allocator, identifiers, dataflow_counter, logging,
                    activations, cursor, field, building, ret, panicked, idLog,
                    entryEvents, schedStart, schedLog, schedFalse, registered >>
    /\ UNCHANGED allocHist
    /\ UNCHANGED loop

\* a loop that also ends when step returns false
LoopEndsOnFalse(result) == IF result THEN "test" ELSE "none"
\* lines 171-172: step's value is discarded and func is evaluated again
LoopAfterStep(result) == "test"

\* line 167: !self.dataflows.borrow().is_empty()
StepResultNegated(dfs) == Len(dfs) = 0
StepResult(dfs) == ~(Len(dfs) = 0)

StepReturn ==
    /\ Running
    /\ pc = "return"
    /\ ret' = StepResult(dataflows)
    /\ loop' = IF loop.at = "step"
               THEN [at |-> LoopAfterStep(StepResult(dataflows)),
                     lastRet |-> << StepResult(dataflows) >>]
               ELSE loop
    /\ pc' = "idle"
    /\ cursor' = 0
    /\ schedStart' = <<>>
    /\ schedLog' = <<>>
    /\ logging' = [flushed |-> FALSE]
    /\ allocator' = [allocator EXCEPT !.released = FALSE]
    /\ UNCHANGED << paths, identifiers, dataflows, dataflow_counter, activations,
                    field, building, panicked, idLog, entryEvents, schedFalse,
                    registered >>
    /\ UNCHANGED allocHist

(***************************************************************************)
(* Forced teardown: the owner lets go of the worker between operations,    *)
(* and the Vec<Wrapper> drops its wrappers in order, each through Drop for *)
(* Wrapper.                                                                *)
(***************************************************************************)
DropWorker ==
    /\ Running
    /\ pc = "idle"
    /\ building = <<>>
    /\ loop.at = "none"
    /\ pc' = "drop"
    /\ cursor' = 1
    /\ field' = 1
    /\ UNCHANGED workerVars
    /\ UNCHANGED << building, ret, panicked, idLog, entryEvents, schedStart,
                    schedLog, schedFalse, registered >>
    /\ UNCHANGED allocHist
    /\ UNCHANGED loop

\* Drop for Wrapper, lines 294-295, one assignment at a time
WrapperDrop ==
    /\ pc = "drop"
    /\ cursor <= Len(dataflows)
    /\ dataflows' = SetNone(dataflows, cursor, DropOrder[field])
    /\ IF field < Len(DropOrder)
       THEN /\ field' = field + 1
            /\ UNCHANGED cursor
       ELSE /\ field' = 1
            /\ cursor' = cursor + 1
    /\ UNCHANGED << paths, allocator, identifiers, dataflow_counter, logging,
                    activations, pc, building, ret, panicked, idLog, entryEvents,
                    schedStart, schedLog, schedFalse, registered >>
    /\ UNCHANGED allocHist
    /\ UNCHANGED loop

\* every wrapper has been dropped; the Vec's buffer is freed
DropDone ==
    /\ pc = "drop"
    /\ cursor > Len(dataflows)
    /\ dataflows' = <<>>
    /\ pc' = "dead"
    /\ cursor' = 0
    /\ field' = 0
    /\ UNCHANGED << paths, allocator, identifiers, dataflow_counter, logging,
                    activations, building, ret, panicked, idLog, entryEvents,
                    schedStart, schedLog, schedFalse, registered >>
    /\ UNCHANGED allocHist
    /\ UNCHANGED loop

(***************************************************************************)
(* Worker::step_while: while func() { self.step(); }                       *)
(***************************************************************************)
\* line 170: the owner calls step_while between operations
step_while_call ==
    /\ Running
    /\ pc = "idle"
    /\ building = <<>>
    /\ loop.at = "none"
    /\ loop' = [at |-> "test", lastRet |-> NoValue]
    /\ UNCHANGED workerVars
    /\ UNCHANGED stepVars
    /\ UNCHANGED << building, panicked, idLog, registered >>
    /\ UNCHANGED allocHist

\* line 171: func() is evaluated; true enters the body, false leaves the loop
step_while_test ==
    /\ Running
    /\ pc = "idle"
    /\ building = <<>>
    /\ loop.at = "test"
    /\ \E result \in BOOLEAN :
          loop' = IF result THEN [loop EXCEPT !.at = "call"] ELSE NoLoop
    /\ UNCHANGED workerVars
    /\ UNCHANGED stepVars
    /\ UNCHANGED << building, panicked, idLog, registered >>
    /\ UNCHANGED allocHist

Next ==
    \/ new_identifier
    \/ allocate
    \/ pipeline
    \/ dataflow_using_enter
    \/ dataflow_using_exit
    \/ StepReceive
    \/ StepDrain
    \/ StepTidy
    \/ WrapperStepCall
    \/ OperatorForExtensions
    \/ ScheduleReturn
    \/ WrapperRelease
    \/ StepFlush
    \/ StepRelease
    \/ StepRetain
    \/ StepReturn
    \/ DropWorker
    \/ WrapperDrop
    \/ DropDone

Spec == Init /\ [][Next]_vars

\* the owner drives the worker through step_while, constructing dataflows
\* between the calls
NextStepWhile ==
    \/ step_while_call
    \/ step_while_test
    \/ dataflow_using_enter
    \/ dataflow_using_exit
    \/ StepReceive
    \/ StepDrain
    \/ StepTidy
    \/ WrapperStepCall
    \/ ScheduleReturn
    \/ WrapperRelease
    \/ StepFlush
    \/ StepRelease
    \/ StepRetain
    \/ StepReturn

SpecStepWhile == Init /\ [][NextStepWhile]_vars

(***************************************************************************)
(* Wrapper::step as a unit: the scheduling loop of a step applied to every *)
(* value a Wrapper takes in the program (fresh, operator released, both    *)
(* fields released), including the released ones that Worker::step itself  *)
(* never visits because retain removes them first.                         *)
(***************************************************************************)
RECURSIVE ReleasedUpTo(_, _)
ReleasedUpTo(wrapper, n) ==
    IF n = 0 THEN wrapper
    ELSE SetNone(<< ReleasedUpTo(wrapper, n - 1) >>, 1, ReleaseOrder[n])[1]

WrapperValues(dataflow_index) ==
    { ReleasedUpTo(NewWrapper(dataflow_index), n) : n \in 0..Len(ReleaseOrder) }

WrapperLists ==
    UNION { { l \in [1..n -> UNION { WrapperValues(i) : i \in 0..(MaxDataflows - 1) }] :
                \A j, k \in 1..n : j # k => l[j].index # l[k].index } :
            n \in 1..MaxDataflows }

InitWrapper ==
    /\ dataflows \in WrapperLists
    /\ dataflow_counter = MaxDataflows
    /\ registered = Indices(dataflows)
    /\ schedStart = Indices(dataflows)
    /\ pc = "each"
    /\ cursor = 1
    /\ paths = <<>>
    /\ allocator = [channels |-> {}, events |-> <<>>, released |-> FALSE]
    /\ identifiers = 0
    /\ logging = [flushed |-> FALSE]
    /\ activations = <<>>
    /\ field = 0
    /\ building = <<>>
    /\ ret = FALSE
    /\ panicked = NoPanic
    /\ loop = NoLoop
    /\ idLog = <<>>
    /\ supplied = << >>
    /\ reused = FALSE
    /\ entryEvents = <<>>
    /\ schedLog = <<>>
    /\ schedFalse = {}

NextWrapper ==
    \/ WrapperStepCall
    \/ ScheduleReturn
    \/ WrapperRelease
    \/ StepFlush
    \/ StepRelease
    \/ StepRetain
    \/ StepReturn

SpecWrapper == InitWrapper /\ [][NextWrapper]_vars

(***************************************************************************)
(* Properties.                                                             *)
(***************************************************************************)
ListIndices == Range(Indices(dataflows))

\* a is a subsequence of b (both without repeated elements)
IsSubsequence(a, b) ==
    /\ Range(a) \subseteq Range(b)
    /\ \A i, j \in 1..Len(a) : i < j =>
          \E p, q \in 1..Len(b) : p < q /\ b[p] = a[i] /\ b[q] = a[j]

\* C1: when step returns, its value is TRUE iff at least one dataflow is in
\* the dataflow list after that step's retain; FALSE exactly when it is empty.
C1_StepReturnsNonEmptiness ==
    [][(pc = "return" /\ pc' = "idle") => (ret' = (Len(dataflows') >= 1))]_vars

\* a step has returned TRUE after retiring one dataflow and keeping another
C1_Witness ==
    /\ pc = "idle"
    /\ ret = TRUE
    /\ schedFalse # {}
    /\ Len(dataflows) = 1

\* C2: within a step the dataflows in the list when scheduling starts are
\* scheduled once each, in list (insertion) order: the schedule calls made
\* so far are the first ones of that list, and all of it once the loop ends.
C2_ScheduledOnceInOrder ==
    /\ pc = "each" /\ cursor <= Len(schedStart) =>
          schedLog = SubSeq(schedStart, 1, cursor - 1)
    /\ pc \in {"inSchedule", "retire"} =>
          schedLog = SubSeq(schedStart, 1, cursor)
    /\ (pc = "each" /\ cursor > Len(schedStart)) \/ pc \in {"release", "retain", "return"} =>
          schedLog = schedStart
    /\ pc \in {"each", "inSchedule", "retire"} => schedStart = Indices(dataflows)

\* two dataflows have been scheduled and the loop is over
C2_Witness ==
    /\ pc = "release"
    /\ Len(schedLog) = 2
    /\ schedLog[1] # schedLog[2]

\* C3: before the first dataflow is scheduled in a step, every event the
\* allocator held after receive has had paths[channel] unparked, the event
\* list is empty and the activation set is tidy.
C3_EventsActivatedBeforeScheduling ==
    (pc = "each" /\ cursor = 1) =>
        /\ schedLog = <<>>
        /\ allocator.events = <<>>
        /\ IsTidy(activations)
        /\ \A i \in 1..Len(entryEvents) :
              /\ entryEvents[i] + 1 <= Len(paths)
              /\ paths[entryEvents[i] + 1] \in Range(activations)

\* an event was drained whose address tidy() sorted in front of an address
\* left from an earlier step, and a dataflow is about to be scheduled
C3_Witness ==
    /\ pc = "each"
    /\ cursor = 1
    /\ Len(entryEvents) = 1
    /\ Len(activations) = 2
    /\ activations[1] = paths[entryEvents[1] + 1]
    /\ dataflows # <<>>

\* C4: between worker operations the list holds no wrapper whose operator
\* is None, and its wrappers are in the order in which they were pushed.
C4_NoRetiredWrappersInOrder ==
    pc = "idle" =>
        /\ \A i \in 1..Len(dataflows) : dataflows[i].operate
        /\ IsSubsequence(Indices(dataflows), registered)

\* after a step that retired one of two dataflows
C4_Witness ==
    /\ pc = "idle"
    /\ Len(registered) = 2
    /\ Len(dataflows) = 1
    /\ schedFalse # {}

\* C5: no wrapper ever holds its operator while its resources are released,
\* neither while Wrapper::step retires it nor while Drop for Wrapper runs.
C5_OperatorReleasedFirst ==
    \A i \in 1..Len(dataflows) : dataflows[i].operate => dataflows[i].resources

\* Drop for Wrapper is between its two assignments, in a run in which
\* Wrapper::step has retired a dataflow before
C5_Witness ==
    /\ pc = "drop"
    /\ schedFalse # {}
    /\ \E i \in 1..Len(dataflows) : ~dataflows[i].operate /\ dataflows[i].resources

\* C6: the k-th call of new_identifier returns k-1 and after N calls the
\* counter is N.
C6_IdentifiersConsecutive ==
    /\ identifiers = Len(idLog)
    /\ \A k \in 1..Len(idLog) : idLog[k] = k - 1

\* two identifiers were minted, the second inside an operator's schedule,
\* with channels allocated as well
C6_Witness ==
    /\ Len(idLog) = 2
    /\ pc = "inSchedule"
    /\ paths # <<>>

\* C7: as long as the allocations made so far used pairwise distinct
\* identifiers (and non-empty addresses), paths[identifier] is the address
\* supplied for that identifier, for every identifier allocated.
C7_PathsHoldSuppliedAddresses ==
    ~reused =>
        \A identifier \in DOMAIN supplied :
            /\ identifier + 1 <= Len(paths)
            /\ paths[identifier + 1] = supplied[identifier]

\* two identifiers allocated, each once, with different addresses
C7_Witness ==
    /\ ~reused
    /\ DOMAIN supplied = {0, 1}
    /\ supplied[0] # supplied[1]

\* C8 as stated: a slot written by a channel allocation is never changed by
\* any later operation.
C8_PathsWriteOnce ==
    [][\A i \in allocator.channels : paths'[i + 1] = paths[i + 1]]_vars

\* C8 as amended: as long as no identifier is allocated a second time, no
\* operation changes a slot that a channel allocation has written.
C8_PathsWriteOnceDistinct ==
    [][~reused' => \A i \in allocator.channels :
                      /\ i + 1 <= Len(paths')
                      /\ paths'[i + 1] = paths[i + 1]]_vars

\* a step is returning with two channels allocated under distinct identifiers
C8_Witness ==
    /\ ~reused
    /\ allocator.channels = {0, 1}
    /\ pc = "return"

\* C9: wherever allocate or pipeline can be called, calling it with the
\* zero-length address, for any identifier, panics and leaves paths and the
\* allocator as they were.
C9_EmptyAddressAborts ==
    InUserCode =>
        \A identifier \in ChannelIds :
            /\ ENABLED AllocateChannel(identifier, <<>>)
            /\ ~ ENABLED (/\ AllocateChannel(identifier, <<>>)
                          /\ ~ (/\ panicked' = PanicAddress
                                /\ paths' = paths
                                /\ allocator' = allocator))

\* the panic has happened on a worker that had allocated a channel
C9_Witness ==
    /\ panicked = PanicAddress
    /\ paths # <<>>
    /\ allocator.channels # {}

\* C10: a pushed dataflow whose schedule has never returned false is in the
\* list with operator and resources held; once a step has returned, no
\* dataflow whose schedule returned false is in the list.
C10_RetiredInStepOfFirstFalse ==
    pc \notin {"drop", "dead"} =>
        /\ \A d \in Range(registered) \ schedFalse : d \in ListIndices
        /\ \A i \in 1..Len(dataflows) :
              dataflows[i].index \notin schedFalse =>
                  dataflows[i].operate /\ dataflows[i].resources
        /\ pc = "idle" => ListIndices \cap schedFalse = {}

\* a dataflow survived a step in which another one retired
C10_Witness ==
    /\ pc = "idle"
    /\ schedFalse # {}
    /\ dataflows # <<>>
    /\ ret = TRUE

StepTransition ==
    \/ pc = "idle" /\ pc' = "drain"
    \/ pc \in {"drain", "tidy", "each", "retire", "release", "retain", "return"}
    \/ pc = "inSchedule" /\ pc' # "inSchedule"

DrainedPaths == { paths[allocator.events[i] + 1] : i \in 1..Len(allocator.events) }

\* C12: a step over an empty dataflow list returns false, leaves paths (and
\* the empty list) unchanged and changes the activations only by adding the
\* addresses of the drained events and tidying; with no pending events the
\* activations are unchanged as a set.
C12_EmptyStepFrame ==
    [][ (StepTransition /\ dataflows = <<>> /\ schedStart = <<>>) =>
           /\ paths' = paths
           /\ dataflows' = <<>>
           /\ pc = "drain" =>
                 Range(activations') = Range(activations) \cup DrainedPaths
           /\ pc = "tidy" =>
                 Range(activations') = Range(activations) /\ IsTidy(activations')
           /\ pc \notin {"drain", "tidy"} => activations' = activations
           /\ allocator.events = <<>> => Range(activations') = Range(activations)
           /\ pc = "return" => ret' = FALSE ]_vars

C12_Witness ==
    /\ pc = "each"
    /\ dataflows = <<>>
    /\ entryEvents # <<>>
    /\ paths[entryEvents[1] + 1] \in Range(activations)
    /\ activations # <<>>

\* C14: in every step the logging flush comes after the last dataflow was
\* scheduled and before the allocator release, and the release comes before
\* any inactive wrapper is removed from the list.
C14_FlushReleaseRetainOrder ==
    /\ pc \in {"each", "inSchedule", "retire"} =>
          ~logging.flushed /\ ~allocator.released
    /\ logging.flushed =>
          pc \in {"release", "retain", "return"} /\ schedLog = schedStart
    /\ allocator.released => logging.flushed
    /\ pc \in {"each", "inSchedule", "retire", "release", "retain"} =>
          Indices(dataflows) = schedStart
    /\ pc \in {"retain", "return"} => allocator.released

C14_Witness ==
    /\ pc = "retain"
    /\ logging.flushed
    /\ allocator.released
    /\ \E i \in 1..Len(dataflows) : ~dataflows[i].operate
    /\ \E i \in 1..Len(dataflows) : dataflows[i].operate

\* C17: every event pending when step drains has its path added to the
\* activations; step's own statements never remove an address: an address
\* leaves the activations only when an operator drains it during scheduling,
\* so an address no scheduled operator drains is still there at return.
C17_OnlyOperatorsConsume ==
    [][ /\ (StepTransition /\ pc = "drain") =>
               DrainedPaths \subseteq Range(activations')
        /\ StepTransition => Range(activations) \subseteq Range(activations')
        /\ ~(Range(activations) \subseteq Range(activations')) =>
               /\ pc = "inSchedule" /\ pc' = "inSchedule"
               /\ \A a \in Range(activations) \ Range(activations') :
                     Extends(a, RootAddress(dataflows[cursor].index)) ]_vars

C17_Witness ==
    /\ pc = "return"
    /\ schedLog # <<>>
    /\ dataflows = <<>>
    /\ << WorkerIndex + 1 >> \in Range(activations)
    /\ << WorkerIndex, 1 >> \notin Range(activations)
    /\ \E c \in allocator.channels : paths[c + 1] = << WorkerIndex, 1 >>

\* C20: a step's own statements leave paths, the identifier counter and the
\* dataflow counter unchanged and never add a wrapper; new_identifier changes
\* only the identifier counter, and allocating a dataflow index changes only
\* the dataflow counter.
C20_CountersAndPathsFrame ==
    [][ /\ StepTransition =>
              /\ paths' = paths
              /\ identifiers' = identifiers
              /\ dataflow_counter' = dataflow_counter
              /\ IsSubsequence(Indices(dataflows'), Indices(dataflows))
        /\ identifiers' # identifiers =>
              /\ identifiers' = identifiers + 1
              /\ UNCHANGED << paths, allocator, dataflows, dataflow_counter,
                              logging, activations >>
        /\ dataflow_counter' # dataflow_counter =>
              /\ dataflow_counter' = dataflow_counter + 1
              /\ UNCHANGED << paths, allocator, dataflows, identifiers,
                              logging, activations >> ]_vars

C20_Witness ==
    /\ pc = "return"
    /\ identifiers = MaxIdentifiers
    /\ dataflow_counter = MaxDataflows
    /\ paths # <<>>
    /\ Len(dataflows) < Len(schedStart)
    /\ dataflows # <<>>

BothSummaries == << "get_internal_summary", "set_external_summary" >>

\* C15: a dataflow_using call allocates its index before the builder runs,
\* runs the builder once, and after it builds the operator, calls
\* get_internal_summary then set_external_summary once each, and only then
\* appends one wrapper (operator and resources present) at the end of the
\* list; every wrapper a step schedules has received both summary calls.
C15_WrapperPushedAfterSummaries ==
    [][ /\ Len(building') > Len(building) =>
              /\ building' = Append(building, dataflow_counter)
              /\ dataflow_counter' = dataflow_counter + 1
              /\ dataflow_counter \notin Range(building) \cup Range(registered)
              /\ dataflows' = dataflows
        /\ Len(building') < Len(building) =>
              /\ building = Append(building', building[Len(building)])
              /\ registered' = Append(registered, building[Len(building)])
              /\ dataflows' =
                    Append(dataflows,
                           [index |-> building[Len(building)],
                            operate |-> TRUE, resources |-> TRUE,
                            summaries |-> BothSummaries])
        /\ dataflows' # dataflows /\ Len(dataflows') > Len(dataflows) =>
              Len(building') < Len(building)
        /\ (pc' = "inSchedule" /\ pc # "inSchedule") =>
              /\ dataflows[cursor].summaries = BothSummaries
              /\ dataflows[cursor].index \in Range(registered)
              /\ dataflows[cursor].index \notin Range(building) ]_vars

C15_Witness ==
    /\ pc = "inSchedule"
    /\ dataflows[cursor].index = 1
    /\ dataflows[cursor].summaries = BothSummaries
    /\ registered = << 0, 1 >>
    /\ building = <<>>

IsIncreasing(s) == \A i, j \in 1..Len(s) : i < j => s[i] < s[j]

\* C19 as stated: the dataflow list is always ordered by strictly increasing
\* dataflow index.
C19_ListOrderedByIndex == IsIncreasing(Indices(dataflows))

\* C19 amended: the indices handed out are 0, 1, 2, .. without gaps or reuse;
\* an enclosing construction has a smaller index than the ones nested in it;
\* the list is in push order, increasing in index as long as the pushes
\* happened in index order.
C19_IndicesConsecutiveListInPushOrder ==
    /\ Range(building) \cup Range(registered) = 0..(dataflow_counter - 1)
    /\ Len(building) + Len(registered) = dataflow_counter
    /\ IsIncreasing(building)
    /\ IsSubsequence(Indices(dataflows), registered)
    /\ IsIncreasing(registered) => IsIncreasing(Indices(dataflows))

C19_Witness ==
    /\ registered = << 1, 0 >>
    /\ Indices(dataflows) = << 1, 0 >>
    /\ schedLog = << 1, 0 >>

\* C13: step_while evaluates the predicate before each step, calls step once
\* for each evaluation that returns true and stops at the first false one
\* (without stepping when that is the first); the value step returns is
\* discarded: after any step of the loop the predicate is evaluated again.
C13_StepWhileFollowsPredicate ==
    [][ /\ loop.at = "none" => loop'.at \in {"none", "test"}
        /\ (loop.at = "test" /\ loop' # loop) =>
              /\ loop'.at \in {"call", "none"}
              /\ pc = "idle" /\ pc' = "idle"
        /\ loop.at = "call" =>
              /\ pc = "idle"
              /\ loop' # loop => (pc' = "drain" /\ loop'.at = "step")
              /\ pc' # pc => loop' # loop
        /\ loop.at = "step" =>
              /\ pc # "idle"
              /\ pc # "return" => loop' = loop
              /\ (pc = "return" /\ pc' = "idle") =>
                    loop' = [at |-> "test", lastRet |-> << ret' >>]
        /\ (pc = "idle" /\ pc' = "drain") => loop.at \in {"none", "call"} ]_vars

C13_Witness ==
    /\ loop.at = "step"
    /\ loop.lastRet = << FALSE >>
    /\ pc = "inSchedule"

\* C16 as stated: user code running inside an operator's schedule and calling
\* the worker through a clone never meets a borrow-overlap abort.
C16_NoBorrowOverlapAbort == pc = "inSchedule" => panicked # PanicBorrow

=============================================================================
